---- MODULE Spec2Model ----
(***************************************************************************)
(* Annotation-driven audio reconstruction: annotation normalization        *)
(* (backend/models.py), surrogate catalog resolution and the splicing      *)
(* engine (backend/audio_processing.py).                                   *)
(*                                                                         *)
(* Times of annotations are counted in ticks of 1/TicksPerMs millisecond,  *)
(* so that int(sec * 1000) is a real truncation.  Python's None is the     *)
(* value None; a value is "present" when it is truthy (neither None nor    *)
(* the empty string).                                                      *)
(***************************************************************************)
EXTENDS Integers, Sequences, FiniteSets, TLC

VARIABLES
    annotations,   \* the caller's annotation list (input of normalize/splice)
    pc,            \* position of the running call
    annots,        \* the list returned by normalize_annotations
    catalog,       \* the files under surrogates_root
    query,         \* the arguments (gender, label, language) of the resolution
    probed,        \* the folders listed by _pick_surrogate_path, in order
    selected,      \* what _pick_surrogate_path returned: a file or None
    loaded,        \* what the loader gave back: a segment and path, or a raise
    input_audio,   \* the caller's audio, one element per ms (its position)
    strategy,      \* 'fit' or 'direct'
    idx,           \* position of the splice loop in annots
    cursor_ms,     \* the splice cursor
    output,        \* the track being built
    surrogate_usage, \* the usage records being built
    result,        \* what anonymize_with_surrogates returned, or None
    error,         \* the exception that left the call, or ""
    saved,         \* what the caller of the splice wrote or encoded, or None
    voice_in,      \* the audio given to apply_voice_modifications
    params,        \* its params mapping, the (key, value) pairs in order
    failure,       \* what failed inside apply_voice_modifications, or ""
    voice_out,     \* what apply_voice_modifications gave back, or None
    x_in,          \* the signal (x) given to a transform of voice_modification.py
    coef,          \* the parameter of the transform
    poles,         \* the poles of the LPC model of a frame
    y_out,         \* what the transform returned (y), or None
    caller,        \* who opened the ProcessingJobLogger block
    job,           \* ProcessingJobLogger.job, the object in memory, or None
    db_row,        \* the committed row of the job in processing_jobs, or None
    db,            \* ProcessingJobLogger.db: None, "open" or "closed"
    exc,           \* the exception that left the block, or NoException
    ret,           \* what run() returned, or None
    out_file,      \* the file written under output/, or None
    logged,        \* the messages db_logger.py gave to log.error
    calls,         \* the concurrent calls: operation, arguments, position, result
    rng,           \* the state of the generator behind random.choice
    environ,       \* os.environ
    heap,          \* the objects in memory, by reference
    caller_list,   \* the caller's list object: references to its Annotations
    caller_audio,  \* the reference of the caller's AudioSegment
    returned       \* the references the call returned, or None

normVars == <<annotations, annots>>
resolveVars == <<catalog, query, probed, selected, loaded>>
spliceVars == <<input_audio, strategy, idx, cursor_ms, output, surrogate_usage,
                result, error, saved>>

voiceVars == <<voice_in, params, failure, voice_out>>
dspVars == <<x_in, coef, poles, y_out>>
jobVars == <<caller, job, db_row, db, exc, ret, out_file, logged>>
concVars == <<calls, rng, environ>>
heapVars == <<heap, caller_list, caller_audio, returned>>

\* the variables of the voice modification, job logging, concurrency and
\* heap specifications
extVars == <<voiceVars, dspVars, jobVars, concVars, heapVars>>

vars == <<annotations, pc, annots, catalog, query, probed, selected, loaded,
          input_audio, strategy, idx, cursor_ms, output, surrogate_usage,
          result, error, saved, extVars>>

None == "None"

\* Python's None where the other values are records (a path, a segment)
Nil == [none |-> TRUE]

\* ---------------------------------------------------------------- bounds
MaxAnn == 2
MaxTime == 3
MaxFiles == 2
MaxSpans == 2
AudioMs == 3

\* ------------------------------------------------------------ Annotation
Annotation(s, e, g, l, lang) ==
    [start_sec |-> s, end_sec |-> e, gender |-> g, label |-> l, language |-> lang]

Truthy(v) == v # None /\ v # ""

\* Python's `a or b`
PyOr(a, b) == IF Truthy(a) THEN a ELSE b

Max(a, b) == IF a >= b THEN a ELSE b

Min(a, b) == IF a <= b THEN a ELSE b

\* a filter that keeps zero-length annotations
IsValidOrEmpty(a) == a.end_sec >= a.start_sec

\* a filter that keeps reversed annotations
IsValidNonzero(a) == a.end_sec # a.start_sec

\* cleaned = [a for a in annotations if a.end_sec > a.start_sec]
IsValid(a) == a.end_sec > a.start_sec

Cleaned(anns) == SelectSeq(anns, IsValid)

\* list.sort(key=start_sec) is stable: an element goes after every element
\* already placed whose key is <= its own.
RECURSIVE InsertByStart(_, _)
InsertByStart(sorted, a) ==
    IF sorted = <<>> THEN <<a>>
    ELSE IF sorted[Len(sorted)].start_sec <= a.start_sec
         THEN Append(sorted, a)
         ELSE Append(InsertByStart(SubSeq(sorted, 1, Len(sorted) - 1), a),
                     sorted[Len(sorted)])

\* the list left in the order it was given
SortByStartNone(anns) == anns

RECURSIVE SortByStart(_)
SortByStart(anns) ==
    IF anns = <<>> THEN <<>>
    ELSE InsertByStart(SortByStart(SubSeq(anns, 1, Len(anns) - 1)), anns[Len(anns)])

\* the merge taking the later span's end instead of the maximum
MergedAnnotationLaterEnd(last, ann) ==
    Annotation(last.start_sec,
               ann.end_sec,
               PyOr(ann.gender, last.gender),
               PyOr(ann.label, last.label),
               PyOr(ann.language, last.language))

\* the merge keeping the part the two spans share instead of their hull
MergedAnnotationIntersection(last, ann) ==
    Annotation(Max(last.start_sec, ann.start_sec),
               Min(last.end_sec, ann.end_sec),
               PyOr(ann.gender, last.gender),
               PyOr(ann.label, last.label),
               PyOr(ann.language, last.language))

\* the merge with the earlier span's tags winning
MergedAnnotationEarlierWins(last, ann) ==
    Annotation(last.start_sec,
               Max(last.end_sec, ann.end_sec),
               PyOr(last.gender, ann.gender),
               PyOr(last.label, ann.label),
               PyOr(last.language, ann.language))

\* the overlap branch: merged[-1] = Annotation(...)
MergedAnnotation(last, ann) ==
    Annotation(last.start_sec,
               Max(last.end_sec, ann.end_sec),
               PyOr(ann.gender, last.gender),
               PyOr(ann.label, last.label),
               PyOr(ann.language, last.language))

\* the overlap test with touching spans left apart
OverlapsStrict(last, ann) == ann.start_sec < last.end_sec

\* whether ann is merged into the last accepted span
Overlaps(last, ann) == ann.start_sec <= last.end_sec

\* one iteration of the sweep over cleaned
MergeStep(merged, ann) ==
    IF merged = <<>> THEN <<ann>>
    ELSE LET last == merged[Len(merged)] IN
         IF Overlaps(last, ann)
         THEN [merged EXCEPT ![Len(merged)] = MergedAnnotation(last, ann)]
         ELSE Append(merged, ann)

RECURSIVE MergeAll(_, _)
MergeAll(merged, rest) ==
    IF rest = <<>> THEN merged
    ELSE MergeAll(MergeStep(merged, Head(rest)), Tail(rest))

normalize_annotations(anns) == MergeAll(<<>>, SortByStart(Cleaned(anns)))

\* ------------------------------------------------------------ input sets
Genders == {"male", "female", ""}
Labels == {"PERSON", "LOCATION", None, ""}
Languages == {"english", "luganda", ""}

Metas ==
    { [gender |-> "male", label |-> "PERSON", language |-> "english"],
      [gender |-> "female", label |-> "LOCATION", language |-> "luganda"],
      [gender |-> "female", label |-> None, language |-> "english"],
      [gender |-> "", label |-> "", language |-> ""] }

NormAnnotations ==
    { Annotation(s, e, m.gender, m.label, m.language) :
        s \in 0..MaxTime, e \in 0..MaxTime, m \in Metas }

SeqsUpTo(S, n) == UNION { [1..k -> S] : k \in 0..n }

\* an exception: its class and str(exc_val)
Raised(type, message) == [type |-> type, message |-> message]

\* exc_type is None
NoException == Raised("", "")

\* no splice is running and none has run
NoSplice ==
    /\ input_audio = <<>>
    /\ strategy = "direct"
    /\ idx = 0
    /\ cursor_ms = 0
    /\ output = <<>>
    /\ surrogate_usage = <<>>
    /\ result = Nil
    /\ error = ""
    /\ saved = Nil

NoVoice == voice_in = <<>> /\ params = <<>> /\ failure = "" /\ voice_out = Nil

NoDsp == x_in = <<>> /\ coef = 0 /\ poles = <<>> /\ y_out = Nil

NoJob ==
    /\ caller = ""
    /\ job = Nil
    /\ db_row = Nil
    /\ db = None
    /\ exc = NoException
    /\ ret = Nil
    /\ out_file = Nil
    /\ logged = {}

NoConc == calls = <<>> /\ rng = 0 /\ environ = {}

NoHeap == heap = <<>> /\ caller_list = <<>> /\ caller_audio = 0 /\ returned = Nil

NoExt == NoVoice /\ NoDsp /\ NoJob /\ NoConc /\ NoHeap

\* the state of normalization, resolution and splice when none is running
NoCore ==
    /\ annotations = <<>>
    /\ annots = <<>>
    /\ catalog = {}
    /\ query = Nil
    /\ probed = <<>>
    /\ selected = Nil
    /\ loaded = Nil
    /\ NoSplice

\* ------------------------------------------------------- normalize alone
InitNorm ==
    /\ annotations \in SeqsUpTo(NormAnnotations, MaxAnn)
    /\ pc = "input"
    /\ annots = <<>>
    /\ catalog = {}
    /\ query = Nil
    /\ probed = <<>>
    /\ selected = Nil
    /\ loaded = Nil
    /\ NoSplice
    /\ NoExt

Normalize ==
    /\ pc = "input"
    /\ annots' = normalize_annotations(annotations)
    /\ pc' = "normalized"
    /\ UNCHANGED <<extVars, annotations, resolveVars, spliceVars>>

\* the caller hands the normalized list to normalize_annotations again
Renormalize ==
    /\ pc = "normalized"
    /\ annotations' = annots
    /\ pc' = "input"
    /\ UNCHANGED <<extVars, annots, resolveVars, spliceVars>>

NextNorm == Normalize \/ Renormalize

SpecNorm == InitNorm /\ [][NextNorm]_vars

\* ------------------------------------------------------ surrogate catalog
\* str.lower() and str.upper() on the strings of the model
Lower(s) ==
    CASE s = "PERSON" -> "person"
      [] s = "LOCATION" -> "location"
      [] s = "Female" -> "female"
      [] s = "WAV" -> "wav"
      [] OTHER -> s

Upper(s) ==
    CASE s = "person" -> "PERSON"
      [] s = "location" -> "LOCATION"
      [] s = "male" -> "MALE"
      [] s = "female" -> "FEMALE"
      [] s = "Female" -> "FEMALE"
      [] OTHER -> s

\* a file of the catalog: its folder below surrogates_root (the path
\* components), the tokens its basename is made of, its extension and the
\* native duration of the clip in ms
File(dir, name, ext, ms) == [dir |-> dir, name |-> name, ext |-> ext, ms |-> ms]

AudioExts == {"wav", "mp3", "flac", "ogg", "m4a"}

\* _list_audio_files(folder)
ListAudioFiles(cat, folder) ==
    { f \in cat : f.dir = folder /\ Lower(f.ext) \in AudioExts }

\* the first three lines of _pick_surrogate_path (the strings of the model
\* carry no surrounding blanks, so strip() changes nothing)
NormGender(gender) == Lower(PyOr(gender, "male"))

NormLabel(label) == PyOr(Lower(PyOr(label, "")), None)

NormLanguage(language) == Lower(PyOr(language, "english"))

\* the search order with the per-gender pool put before the label folders
SearchOrderPoolFirst(gender, label, language) ==
    (IF Truthy(label)
     THEN << <<language, gender>>,
             <<language, gender, label>>,
             <<language, label, gender>>,
             <<language, label>> >>
     ELSE << <<language, gender>> >>)
    \o (IF Truthy(label)
        THEN << <<gender, label>>, <<label, gender>>, <<label>> >>
        ELSE << >>)
    \o << <<gender>> >>

\* search_order, for the normalized gender, label and language
SearchOrder(gender, label, language) ==
    (IF Truthy(label)
     THEN << <<language, gender, label>>,
             <<language, label, gender>>,
             <<language, label>> >>
     ELSE << >>)
    \o << <<language, gender>> >>
    \o (IF Truthy(label)
        THEN << <<gender, label>>, <<label, gender>>, <<label>> >>
        ELSE << >>)
    \o << <<gender>> >>

\* label_upper in os.path.basename(f).upper()
NameHasLabel(f, label) ==
    \E i \in 1..Len(f.name) : Upper(f.name[i]) = Upper(label)

\* the folder's files when the label filter finds none of them matching
FolderCandidatesUnfiltered(cat, folder, label) ==
    LET folder_files == ListAudioFiles(cat, folder)
        filtered == { f \in folder_files : NameHasLabel(f, label) }
    IN IF Truthy(label) /\ filtered # {} THEN filtered ELSE folder_files

\* what one folder of the search order contributes to candidates
FolderCandidates(cat, folder, label) ==
    LET folder_files == ListAudioFiles(cat, folder) IN
    IF Truthy(label)
    THEN { f \in folder_files : NameHasLabel(f, label) }
    ELSE folder_files

\* a loop without the break: the candidates of every folder of the order
ScanAll(cat, order, label, i, listed) ==
    [probed |-> order,
     candidates |-> UNION { FolderCandidates(cat, order[k], label) : k \in 1..Len(order) }]

\* the loop over search_order from position i: the folders listed and the
\* candidates of the first folder that has any
RECURSIVE Scan(_, _, _, _, _)
Scan(cat, order, label, i, listed) ==
    IF i > Len(order) THEN [probed |-> listed, candidates |-> {}]
    ELSE LET c == FolderCandidates(cat, order[i], label) IN
         IF c # {} THEN [probed |-> Append(listed, order[i]), candidates |-> c]
         ELSE Scan(cat, order, label, i + 1, Append(listed, order[i]))

\* _pick_surrogate_path up to the choice among candidates
PickScan(cat, q) ==
    Scan(cat,
         SearchOrder(NormGender(q.gender), NormLabel(q.label), NormLanguage(q.language)),
         NormLabel(q.label), 1, <<>>)

\* the choice falling back to a default asset when nothing was found
PickOutcomesDefault(candidates) ==
    IF candidates = {}
    THEN {[dir |-> <<>>, name |-> <<"default">>, ext |-> "wav", ms |-> 1]}
    ELSE candidates

\* random.choice(candidates), or None
PickOutcomes(candidates) == IF candidates = {} THEN {Nil} ELSE candidates

\* a loader that falls back to a generated clip of silence
LoadSegmentFallback(path) ==
    IF path # Nil
    THEN [status |-> "ok", ms |-> path.ms, pad |-> 0, path |-> path]
    ELSE [status |-> "ok", ms |-> 0, pad |-> 1, path |-> Nil]

\* `if path and os.path.exists(path): seg = from_file(path) else: raise`
\* (ms: the clip's own audio, pad: silence added after it)
LoadSegment(path) ==
    IF path # Nil
    THEN [status |-> "ok", ms |-> path.ms, pad |-> 0, path |-> path]
    ELSE [status |-> "ValueError", ms |-> 0, pad |-> 0, path |-> Nil]

\* _load_and_fit_surrogate: trim to target_ms or right-pad with silence
FitSegment(seg, target_ms) ==
    IF seg.status # "ok" THEN seg
    ELSE IF seg.ms > target_ms THEN [seg EXCEPT !.ms = target_ms]
    ELSE IF seg.ms < target_ms THEN [seg EXCEPT !.pad = target_ms - seg.ms]
    ELSE seg

\* ------------------------------------------------ resolution alone
CatalogDirs ==
    { <<"english", g, "person">> : g \in {"male", "female"} }
    \cup { <<"english", "person", g>> : g \in {"male", "female"} }
    \cup { <<"english", "person">> }
    \cup { <<"english", g>> : g \in {"male", "female"} }
    \cup { <<g, "person">> : g \in {"male", "female"} }
    \cup { <<"person", g>> : g \in {"male", "female"} }
    \cup { <<"person">> }
    \cup { <<g>> : g \in {"male", "female"} }

CatalogNames ==
    { [name |-> <<"male", "PERSON">>, ext |-> "wav"],
      [name |-> <<"female", "location">>, ext |-> "WAV"],
      [name |-> <<"male", "PERSON">>, ext |-> "txt"] }

ClipMs == 2

CatalogFiles == { File(d, n.name, n.ext, ClipMs) : d \in CatalogDirs, n \in CatalogNames }

RECURSIVE SubsetsUpTo(_, _)
SubsetsUpTo(S, n) ==
    IF n = 0 THEN {{}}
    ELSE LET smaller == SubsetsUpTo(S, n - 1) IN
         smaller \cup { c \cup {x} : c \in smaller, x \in S }

Queries ==
    { [gender |-> g, label |-> l, language |-> lang] :
        g \in {"male", "Female", None},
        l \in {"PERSON", "LOCATION", None},
        lang \in {"english"} }

FitTargets == {1, 3}

InitResolve ==
    /\ annotations = <<>>
    /\ annots = <<>>
    /\ pc = "idle"
    /\ catalog \in SubsetsUpTo(CatalogFiles, MaxFiles)
    /\ query = Nil
    /\ probed = <<>>
    /\ selected = Nil
    /\ loaded = Nil
    /\ NoSplice
    /\ NoExt

\* a call of _pick_surrogate_path(surrogates_root, gender, label, language)
Pick ==
    /\ pc = "idle"
    /\ \E q \in Queries :
        LET r == PickScan(catalog, q) IN
        /\ query' = q
        /\ probed' = r.probed
        /\ \E f \in PickOutcomes(r.candidates) : selected' = f
    /\ pc' = "picked"
    /\ UNCHANGED <<extVars, normVars, catalog, loaded, spliceVars>>

\* a call of _load_surrogate_direct
LoadDirect ==
    /\ pc = "idle"
    /\ \E q \in Queries :
        LET r == PickScan(catalog, q) IN
        /\ query' = q
        /\ probed' = r.probed
        /\ \E f \in PickOutcomes(r.candidates) :
            /\ selected' = f
            /\ loaded' = LoadSegment(f)
    /\ pc' = "direct"
    /\ UNCHANGED <<extVars, normVars, catalog, spliceVars>>

\* a call of _load_and_fit_surrogate
LoadFit ==
    /\ pc = "idle"
    /\ \E q \in Queries, target_ms \in FitTargets :
        LET r == PickScan(catalog, q) IN
        /\ query' = q
        /\ probed' = r.probed
        /\ \E f \in PickOutcomes(r.candidates) :
            /\ selected' = f
            /\ loaded' = FitSegment(LoadSegment(f), target_ms)
    /\ pc' = "fit"
    /\ UNCHANGED <<extVars, normVars, catalog, spliceVars>>

\* another call of _pick_surrogate_path with the same arguments, the catalog
\* as it was
PickAgain ==
    /\ pc \in {"picked", "repicked"}
    /\ LET r == PickScan(catalog, query) IN
        /\ probed' = r.probed
        /\ \E f \in PickOutcomes(r.candidates) : selected' = f
    /\ pc' = "repicked"
    /\ UNCHANGED <<extVars, normVars, catalog, query, loaded, spliceVars>>

NextResolve == Pick \/ LoadDirect \/ LoadFit \/ PickAgain

SpecResolve == InitResolve /\ [][NextResolve]_vars

\* ------------------------------------------------------- splicing engine
TicksPerMs == 2

\* int(sec * 1000): truncation toward zero
ToMs(t) == IF t >= 0 THEN t \div TicksPerMs ELSE -((-t) \div TicksPerMs)

Silence == -99

\* the samples of the surrogate inserted for the span at position j
SurrogateSamples(seg, j) == [k \in 1..seg.ms |-> -j] \o [k \in 1..seg.pad |-> Silence]

\* AudioSegment._parse_position: a negative position counts from the end
ParsePosition(val, n) == IF val < 0 THEN n - (-val) ELSE val

\* Python's normalization of a slice index over n elements
PyIndex(i, n) == IF i < 0 THEN Max(i + n, 0) ELSE Min(i, n)

\* the frames AudioSegment.__getitem__ pads before it raises
MissingFramesMs == 2

\* AudioSegment.__getitem__(slice(start, end)) in ms
PySlice(audio, start, end) ==
    LET n == Len(audio)
        s == ParsePosition(Min(start, n), n)
        e == ParsePosition(Min(end, n), n)
        i == PyIndex(s, n)
        j == PyIndex(e, n)
        data == IF i < j THEN SubSeq(audio, i + 1, j) ELSE <<>>
        missing == (e - s) - Len(data)
    IN IF missing > MissingFramesMs
       THEN [status |-> "TooManyMissingFrames", data |-> <<>>]
       ELSE IF missing > 0 /\ data # <<>>
            THEN [status |-> "ok", data |-> data \o [k \in 1..missing |-> Silence]]
            ELSE [status |-> "ok", data |-> data]

\* a record that names the default strategy instead of the one in use
UsageRecordDefaultStrategy(ann, seg, strat) ==
    [start_sec |-> ann.start_sec, end_sec |-> ann.end_sec,
     gender |-> ann.gender, label |-> ann.label, language |-> ann.language,
     surrogate_path |-> seg.path,
     surrogate_duration_ms |-> seg.ms + seg.pad,
     processing_strategy |-> "direct"]

\* an entry of surrogate_usage
UsageRecord(ann, seg, strat) ==
    [start_sec |-> ann.start_sec, end_sec |-> ann.end_sec,
     gender |-> ann.gender, label |-> ann.label, language |-> ann.language,
     surrogate_path |-> seg.path,
     surrogate_duration_ms |-> seg.ms + seg.pad,
     processing_strategy |-> strat]

OriginalAudio == [k \in 1..AudioMs |-> k - 1]

\* annotation times in ticks: a span before time 0, spans shorter than a
\* ms, spans that overlap, and a span that runs past the end of the clip
SpliceStarts == {-4, 0, 3, 5}
SpliceDurations == {0, 1, 4}

SpliceMetas ==
    { [gender |-> "male", label |-> "PERSON", language |-> "english"],
      [gender |-> "female", label |-> "PERSON", language |-> "english"],
      [gender |-> "male", label |-> None, language |-> "english"] }

SpliceAnnotations ==
    { Annotation(s, s + d, m.gender, m.label, m.language) :
        s \in SpliceStarts, d \in SpliceDurations, m \in SpliceMetas }

SpliceFiles ==
    { File(<<"english", "male">>, <<"male", "PERSON">>, "wav", 1),
      File(<<"english", "female">>, <<"female", "PERSON">>, "wav", 3) }

InitSplice ==
    /\ annotations \in SeqsUpTo(SpliceAnnotations, MaxSpans)
    /\ annots = <<>>
    /\ pc = "call"
    /\ catalog \in SUBSET SpliceFiles
    /\ query = Nil
    /\ probed = <<>>
    /\ selected = Nil
    /\ loaded = Nil
    /\ input_audio = OriginalAudio
    /\ strategy \in {"fit", "direct"}
    /\ idx = 0
    /\ cursor_ms = 0
    /\ output = <<>>
    /\ surrogate_usage = <<>>
    /\ result = Nil
    /\ error = ""
    /\ saved = Nil
    /\ NoExt

\* an exception leaves anonymize_with_surrogates with `out` built so far
Raise(e, out) ==
    /\ pc' = "raised"
    /\ error' = e
    /\ output' = out
    /\ UNCHANGED <<idx, cursor_ms, surrogate_usage, result>>

\* anonymize_with_surrogates up to the loop: normalize, return early if empty
SpliceStart ==
    /\ pc = "call"
    /\ annots' = normalize_annotations(annotations)
    /\ IF annots' = <<>>
       THEN /\ result' = [audio |-> input_audio, usage |-> <<>>]
            /\ pc' = "returned"
            /\ UNCHANGED <<idx, cursor_ms, output, surrogate_usage>>
       ELSE /\ output' = <<>>
            /\ cursor_ms' = 0
            /\ surrogate_usage' = <<>>
            /\ idx' = 1
            /\ pc' = "loop"
            /\ UNCHANGED result
    /\ UNCHANGED <<extVars, annotations, resolveVars, input_audio, strategy, error, saved>>

\* one iteration of `for i, ann in enumerate(annots)`
SpliceSpan ==
    /\ pc = "loop"
    /\ idx <= Len(annots)
    /\ LET ann == annots[idx]
           start_ms == ToMs(ann.start_sec)
           end_ms == ToMs(ann.end_sec)
           target_ms == Max(0, end_ms - start_ms)
           part == IF start_ms > cursor_ms
                   THEN PySlice(input_audio, cursor_ms, start_ms)
                   ELSE [status |-> "ok", data |-> <<>>]
           q == [gender |-> ann.gender, label |-> ann.label, language |-> ann.language]
           r == PickScan(catalog, q)
       IN IF part.status # "ok"
          THEN /\ Raise(part.status, output)
               /\ UNCHANGED <<query, probed, selected, loaded>>
          ELSE \E f \in PickOutcomes(r.candidates) :
                 LET seg == IF strategy = "fit"
                            THEN FitSegment(LoadSegment(f), target_ms)
                            ELSE LoadSegment(f)
                 IN /\ query' = q
                    /\ probed' = r.probed
                    /\ selected' = f
                    /\ loaded' = seg
                    /\ IF seg.status # "ok"
                       THEN Raise(seg.status, output \o part.data)
                       ELSE IF ann.label = None
                       THEN Raise("AttributeError",
                                  output \o part.data \o SurrogateSamples(seg, idx))
                       ELSE /\ output' = output \o part.data \o SurrogateSamples(seg, idx)
                            /\ surrogate_usage' =
                                  Append(surrogate_usage, UsageRecord(ann, seg, strategy))
                            /\ cursor_ms' = end_ms
                            /\ idx' = idx + 1
                            /\ UNCHANGED <<pc, error, result>>
    /\ UNCHANGED <<extVars, normVars, catalog, input_audio, strategy, saved>>

\* after the loop: append the tail of the original and return
SpliceFinish ==
    /\ pc = "loop"
    /\ idx > Len(annots)
    /\ LET tail == IF cursor_ms < Len(input_audio)
                   THEN PySlice(input_audio, cursor_ms, Len(input_audio))
                   ELSE [status |-> "ok", data |-> <<>>]
       IN IF tail.status # "ok"
          THEN Raise(tail.status, output)
          ELSE /\ output' = output \o tail.data
               /\ result' = [audio |-> output', usage |-> surrogate_usage]
               /\ pc' = "returned"
               /\ UNCHANGED <<idx, cursor_ms, surrogate_usage, error>>
    /\ UNCHANGED <<extVars, normVars, resolveVars, input_audio, strategy, saved>>

\* anonymize_file after the splice returned: save_audio(output, output_path)
SaveFile ==
    /\ pc = "returned"
    /\ saved' = [to |-> "file", audio |-> result.audio, usage |-> result.usage]
    /\ pc' = "saved"
    /\ UNCHANGED <<extVars, normVars, resolveVars, input_audio, strategy, idx, cursor_ms,
                   output, surrogate_usage, result, error>>

\* the params_file argument of anonymize_to_bytes
ParamsFiles == {None, "mixed_medium_alt.json"}

\* anonymize_to_bytes after the splice returned: the voice modification step
\* (`if params_file:` only logs that it is skipped) and output.export(out_buf)
ExportBytes ==
    /\ pc = "returned"
    /\ \E params_file \in ParamsFiles :
          saved' = [to |-> "bytes", audio |-> result.audio, usage |-> result.usage,
                    params_file |-> params_file, voice_modified |-> FALSE]
    /\ pc' = "exported"
    /\ UNCHANGED <<extVars, normVars, resolveVars, input_audio, strategy, idx, cursor_ms,
                   output, surrogate_usage, result, error>>

NextSplice == SpliceStart \/ SpliceSpan \/ SpliceFinish \/ SaveFile \/ ExportBytes

SpecSplice == InitSplice /\ [][NextSplice]_vars

\* --------------------------------------------- apply_voice_modifications
MaxSamples == 2
MaxParams == 2

\* an AudioSegment: its samples, the bytes per sample and the transforms
\* its samples went through
Segment(samples, sample_width, applied) ==
    [samples |-> samples, sample_width |-> sample_width, applied |-> applied]

\* full_scale = 2 ** (8 * sample_width_bytes - 1)
FullScale(sample_width) == 2 ^ (8 * sample_width - 1)

\* np.clip(v, -32768, 32767)
ClipInt16(v) == Max(-32768, Min(32767, v))

\* samples / full_scale on the way in, np.int16(np.clip(modified * 2 ** 15,
\* ...)) on the way out (the quotient is exact for the widths of the model)
Requantize(samples, sample_width) ==
    [k \in 1..Len(samples) |->
        ClipInt16((samples[k] * (2 ^ 15)) \div FullScale(sample_width))]

\* the transforms the chain knows
TransformNames == {"vtln", "resamp", "mcadams", "modspec", "clip", "chorus"}

\* optimize.anonymize(x, fs, **params): the entries of params in order, an
\* entry whose key is no transform skipped; `applied` is the list of the
\* transforms x went through
RECURSIVE anonymize(_, _)
anonymize(applied, ps) ==
    IF ps = <<>> THEN applied
    ELSE anonymize(IF ps[1][1] \in TransformNames THEN Append(applied, ps[1])
                   ELSE applied,
                   Tail(ps))

Returned(a) == [status |-> "returned", audio |-> a]

\* the function without its `if not params: return audio`
apply_voice_modifications_always(a, ps, fail) ==
    IF fail # "" THEN Returned(a)
    ELSE Returned(Segment(Requantize(a.samples, a.sample_width), 2,
                          anonymize(a.applied, ps)))

\* apply_voice_modifications(audio, params); fail is what goes wrong inside:
\* nothing (""), the import of optimize, or an exception in the try block
apply_voice_modifications(a, ps, fail) ==
    IF ps = <<>> THEN Returned(a)
    ELSE IF fail = "ImportError" THEN Returned(a)
    ELSE IF fail = "Exception" THEN Returned(a)
    ELSE Returned(Segment(Requantize(a.samples, a.sample_width), 2,
                          anonymize(a.applied, ps)))

\* what can go wrong for a params mapping: nothing is imported or run for an
\* empty one, and only a transform that runs can raise
Failures(ps) ==
    IF ps = <<>> THEN {""}
    ELSE {"", "ImportError"}
         \cup (IF \E i \in 1..Len(ps) : ps[i][1] \in TransformNames
               THEN {"Exception"} ELSE {})

VoiceSamples == {-128, 0, 127}

VoiceSegments ==
    { Segment(smp, w, <<>>) :
        smp \in SeqsUpTo(VoiceSamples, MaxSamples) \ {<<>>}, w \in {1, 2} }

\* the keys of the params files: two transforms and a key that is none
ParamKeys == {"mcadams", "clip", "pitch"}

\* params as json.load gives it: (key, value) pairs in file order, keys distinct
ParamMappings ==
    { ps \in SeqsUpTo({ <<k, 1>> : k \in ParamKeys }, MaxParams) :
        \A i, j \in 1..Len(ps) : i # j => ps[i][1] # ps[j][1] }

InitVoice ==
    /\ pc = "voice_call"
    /\ voice_in \in VoiceSegments
    /\ params \in ParamMappings
    /\ failure = ""
    /\ voice_out = Nil
    /\ NoCore
    /\ NoDsp /\ NoJob /\ NoConc /\ NoHeap

\* a call of apply_voice_modifications(audio, params)
ApplyVoiceModifications ==
    /\ pc = "voice_call"
    /\ \E fail \in Failures(params) :
        /\ failure' = fail
        /\ voice_out' = apply_voice_modifications(voice_in, params, fail)
    /\ pc' = "voice_done"
    /\ UNCHANGED <<normVars, resolveVars, spliceVars, voice_in, params,
                   dspVars, jobVars, concVars, heapVars>>

NextVoice == ApplyVoiceModifications

SpecVoice == InitVoice /\ [][NextVoice]_vars

\* ------------------------------------------------- voice_modification.py
MaxSignal == 3

\* np.sum(v * v)
RECURSIVE SumSq(_)
SumSq(v) == IF v = <<>> THEN 0 ELSE v[1] * v[1] + SumSq(Tail(v))

Abs(v) == IF v < 0 THEN -v ELSE v

\* a coefficient num/den
Coef(num, den) == [num |-> num, den |-> den]

\* the array a transform returns: dir * sqrt(num_sq / den_sq), or an array
\* of NaN
Scaled(dir, num_sq, den_sq) ==
    [nan |-> FALSE, dir |-> dir, num_sq |-> num_sq, den_sq |-> den_sq]

NaNs == [nan |-> TRUE, dir |-> <<>>, num_sq |-> 0, den_sq |-> 0]

\* y * a / b in floating point: 0/0 is NaN, a/0 is inf and inf * 0 is NaN
FloatRescale(dir, num_sq, den_sq) ==
    IF den_sq = 0 THEN NaNs ELSE Scaled(dir, num_sq, den_sq)

\* y * np.divide(a, b, out=zeros, where=b != 0): the factor is 0 where b = 0
GuardedRescale(dir, num_sq, den_sq) ==
    IF den_sq = 0 THEN Scaled(dir, 0, 1) ELSE Scaled(dir, num_sq, den_sq)

\* np.histogram(np.abs(x), 1000)
NBins == 1000

\* twice the first and the last edge of the histogram (a range of width 0
\* is widened by 0.5 on both sides)
EdgeLo2(ax) ==
    LET lo == CHOOSE v \in ax : \A w \in ax : v <= w
        hi == CHOOSE v \in ax : \A w \in ax : v >= w
    IN IF lo = hi THEN 2 * lo - 1 ELSE 2 * lo

EdgeHi2(ax) ==
    LET lo == CHOOSE v \in ax : \A w \in ax : v <= w
        hi == CHOOSE v \in ax : \A w \in ax : v >= w
    IN IF lo = hi THEN 2 * hi + 1 ELSE 2 * hi

\* the bin a value falls in (the last bin is closed on the right)
BinOf(v, ax) ==
    Min(NBins - 1, ((2 * v - EdgeLo2(ax)) * NBins) \div (EdgeHi2(ax) - EdgeLo2(ax)))

\* abs_thresh, in units of 1 / (2 * NBins): the left edge of the first bin
\* whose cumulative count reaches min(max(0, thresh), 1) * np.amax(hist)
AbsThresh(xs, thresh) ==
    LET ax == { Abs(xs[k]) : k \in 1..Len(xs) }
        t == Coef(Max(0, Min(thresh.num, thresh.den)), thresh.den)
        cum(i) == Cardinality({ k \in 1..Len(xs) : BinOf(Abs(xs[k]), ax) <= i })
        reach == { i \in {0} \cup { BinOf(v, ax) : v \in ax } :
                     t.den * cum(i) >= t.num * Len(xs) }
        first == CHOOSE i \in reach : \A j \in reach : i <= j
    IN NBins * EdgeLo2(ax) + first * (EdgeHi2(ax) - EdgeLo2(ax))

\* clipping(x, thresh); the samples of dir are in units of 1 / (2 * NBins)
clipping(xs, thresh) ==
    LET abs_thresh == AbsThresh(xs, thresh)
        yc == [k \in 1..Len(xs) |->
                  Min(Max(2 * NBins * xs[k], -abs_thresh), abs_thresh)]
    IN GuardedRescale(yc, SumSq(xs), SumSq(yc))

\* what the inverse STFT of the smoothed spectrum can be: log(0) is -inf
\* for a silent x and the filter turns it into NaN; else some signal of the
\* length of x that is not silent
IstftOutcomes(xs) ==
    IF SumSq(xs) = 0 THEN {<<>>}
    ELSE { v \in [1..Len(xs) -> {-1, 0, 1}] : SumSq(v) # 0 }

\* modspec_smoothing(x, coef) given the inverse STFT y0 (<<>>: an array of NaN)
modspec_smoothing(xs, y0) ==
    IF y0 = <<>> THEN NaNs ELSE FloatRescale(y0, SumSq(xs), SumSq(y0))

\* winlen and shift of vp_baseline2, in samples (the defaults, 320 and 160,
\* scaled down by 160)
WinLen == 2
Shift == 1

\* angles are in milliradians
MRad == 1000
Pi == 3142

\* a pole of the LPC model: magnitude and angle in (-Pi, Pi]
Pole(mag, ang) == [mag |-> mag, ang |-> ang]

\* n_frame = 1 + np.floor((length_x - winlen) / shift)
NFrame(length_x) == 1 + ((length_x - WinLen) \div Shift)

\* np.arange(1, n_frame), the values m of the loop
FrameLoop(length_x) == [i \in 1..Max(0, NFrame(length_x) - 1) |-> i]

\* ind_imag = np.where(np.isreal(poles) == False)[0]
IndImag(ps) ==
    LET NotReal(i) == ps[i].ang \notin {0, Pi}
        F[i \in 0..Len(ps)] ==
            IF i = 0 THEN <<>>
            ELSE IF NotReal(i) THEN Append(F[i - 1], i) ELSE F[i - 1]
    IN F[Len(ps)]

\* every position of ind_imag
IndImagConAll(ps) == IndImag(ps)

\* ind_imag_con = ind_imag[np.arange(0, np.size(ind_imag), 2)]
IndImagCon(ps) ==
    LET ind_imag == IndImag(ps) IN
    [k \in 1..((Len(ind_imag) + 1) \div 2) |-> ind_imag[2 * k - 1]]

\* angle ** mcadams for mcadams = 0, 1, 2
AnglePow(ang, mcadams) ==
    CASE mcadams.num = 0 -> MRad
      [] mcadams.num = mcadams.den -> ang
      [] OTHER -> (ang * ang) \div MRad

\* new_angles, kept between 0 and pi
NewAngle(ang, mcadams) ==
    LET a == AnglePow(ang, mcadams) IN
    IF a >= Pi THEN Pi ELSE IF a <= 0 THEN 0 ELSE a

\* the angle of exp(-1j * a)
ConjAngle(a) == IF a = Pi THEN Pi ELSE -a

\* the loop over ind_imag_con: the pole and the one after it get the new
\* angle and keep their magnitude (new_poles is the array poles itself)
RECURSIVE RotatePoles(_, _, _, _)
RotatePoles(new_poles, ind_imag_con, new_angles, k) ==
    IF k > Len(ind_imag_con) THEN new_poles
    ELSE LET i == ind_imag_con[k]
             first == [new_poles EXCEPT ![i] = Pole(new_poles[i].mag, new_angles[k])]
             both == IF i + 1 <= Len(first)
                     THEN [first EXCEPT ![i + 1] =
                              Pole(first[i + 1].mag, ConjAngle(new_angles[k]))]
                     ELSE first
         IN RotatePoles(both, ind_imag_con, new_angles, k + 1)

\* vp_baseline2(x, mcadams) with ps the poles of the LPC model of a frame:
\* the frames resynthesized, how many of them were added onto each sample
\* of y, the poles a_lpc and a_lpc_new are the polynomials of, and whether
\* y / np.max(np.abs(y)) is 0 / 0
vp_baseline2(xs, mcadams, ps) ==
    LET frames == FrameLoop(Len(xs))
        ind_imag_con == IndImagCon(ps)
        new_angles == [k \in 1..Len(ind_imag_con) |->
                          NewAngle(ps[ind_imag_con[k]].ang, mcadams)]
    IN [frames |-> frames,
        added |-> [n \in 1..Len(xs) |->
                     Cardinality({ j \in 1..Len(frames) :
                                     /\ frames[j] * Shift < n
                                     /\ n <= frames[j] * Shift + WinLen })],
        a_lpc |-> ps,
        a_lpc_new |-> RotatePoles(ps, ind_imag_con, new_angles, 1),
        nan |-> frames = <<>>]

\* a complex-conjugate pair, the pole of positive angle first as the
\* eigenvalue routine under tf2zpk returns them
PolePair(ang) == <<Pole(9, ang), Pole(9, -ang)>>

PoleAngles == {500, 2000}

PoleLists ==
    { PolePair(a) : a \in PoleAngles }
    \cup { <<Pole(5, 0)>> \o PolePair(a) \o <<Pole(7, Pi)>> : a \in PoleAngles }
    \cup { PolePair(a) \o PolePair(b) : a, b \in PoleAngles }

\* the samples of the signals given to the transforms
SignalSamples == {-2, 0, 1}

Signals == SeqsUpTo(SignalSamples, MaxSignal) \ {<<>>}

\* thresh of clipping, mcadams of vp_baseline2
Coefs == { Coef(0, 1), Coef(1, 2), Coef(1, 1), Coef(2, 1) }

InitDsp ==
    /\ pc = "dsp_call"
    /\ x_in \in Signals
    /\ coef \in Coefs
    /\ poles = <<>>
    /\ y_out = Nil
    /\ NoCore
    /\ NoVoice /\ NoJob /\ NoConc /\ NoHeap

\* a call of clipping(x, thresh)
Clipping ==
    /\ pc = "dsp_call"
    /\ y_out' = clipping(x_in, coef)
    /\ pc' = "clipping"
    /\ UNCHANGED <<normVars, resolveVars, spliceVars, voiceVars, x_in, coef, poles,
                   jobVars, concVars, heapVars>>

\* a call of modspec_smoothing(x, coef)
ModspecSmoothing ==
    /\ pc = "dsp_call"
    /\ \E y0 \in IstftOutcomes(x_in) : y_out' = modspec_smoothing(x_in, y0)
    /\ pc' = "modspec_smoothing"
    /\ UNCHANGED <<normVars, resolveVars, spliceVars, voiceVars, x_in, coef, poles,
                   jobVars, concVars, heapVars>>

\* a call of vp_baseline2(x, mcadams)
VpBaseline2 ==
    /\ pc = "dsp_call"
    /\ coef.den = 1
    /\ \E ps \in PoleLists :
        /\ poles' = ps
        /\ y_out' = vp_baseline2(x_in, coef, ps)
    /\ pc' = "vp_baseline2"
    /\ UNCHANGED <<normVars, resolveVars, spliceVars, voiceVars, x_in, coef,
                   jobVars, concVars, heapVars>>

NextDsp == Clipping \/ ModspecSmoothing \/ VpBaseline2

SpecDsp == InitDsp /\ [][NextDsp]_vars

\* ------------------------------------------------- objects and references
\* An object is an element of heap and a reference is its position; a list
\* is a sequence of references.

\* the objects a list refers to
Deref(h, refs) == [i \in 1..Len(refs) |-> h[refs[i]]]

\* cleaned = [a for a in annotations if a.end_sec > a.start_sec]: a new list
\* of the objects of the input list
CleanedRefs(h, refs) ==
    LET Keep(r) == IsValid(h[r]) IN SelectSeq(refs, Keep)

\* cleaned.sort(key=lambda a: a.start_sec), on the new list
RECURSIVE InsertRefByStart(_, _, _)
InsertRefByStart(h, sorted, r) ==
    IF sorted = <<>> THEN <<r>>
    ELSE IF h[sorted[Len(sorted)]].start_sec <= h[r].start_sec
         THEN Append(sorted, r)
         ELSE Append(InsertRefByStart(h, SubSeq(sorted, 1, Len(sorted) - 1), r),
                     sorted[Len(sorted)])

RECURSIVE SortRefsByStart(_, _)
SortRefsByStart(h, refs) ==
    IF refs = <<>> THEN <<>>
    ELSE InsertRefByStart(h, SortRefsByStart(h, SubSeq(refs, 1, Len(refs) - 1)),
                          refs[Len(refs)])

\* the overlap branch writing the merged fields into the object merged[-1]
\* refers to
MergeStepInPlace(st, r) ==
    IF st.merged = <<>> THEN [st EXCEPT !.merged = <<r>>]
    ELSE LET last == st.merged[Len(st.merged)] IN
         IF Overlaps(st.heap[last], st.heap[r])
         THEN [st EXCEPT !.heap[last] = MergedAnnotation(st.heap[last], st.heap[r])]
         ELSE [st EXCEPT !.merged = Append(@, r)]

\* one iteration of the sweep: merged.append(ann) appends the object of the
\* input itself, merged[-1] = Annotation(...) puts a new object in the slot
MergeStepRefs(st, r) ==
    IF st.merged = <<>> THEN [st EXCEPT !.merged = <<r>>]
    ELSE LET last == st.merged[Len(st.merged)] IN
         IF Overlaps(st.heap[last], st.heap[r])
         THEN [heap |-> Append(st.heap, MergedAnnotation(st.heap[last], st.heap[r])),
               merged |-> [st.merged EXCEPT ![Len(st.merged)] = Len(st.heap) + 1]]
         ELSE [st EXCEPT !.merged = Append(@, r)]

RECURSIVE MergeAllRefs(_, _)
MergeAllRefs(st, rest) ==
    IF rest = <<>> THEN st
    ELSE MergeAllRefs(MergeStepRefs(st, Head(rest)), Tail(rest))

\* normalize_annotations on references: the heap and the list it returns
NormalizeRefs(h, refs) ==
    MergeAllRefs([heap |-> h, merged |-> <<>>], SortRefsByStart(h, CleanedRefs(h, refs)))

\* an AudioSegment object
AudioObject(of) == [segment |-> of]

HeapMetas ==
    { [gender |-> "male", label |-> "PERSON", language |-> "english"],
      [gender |-> "", label |-> None, language |-> ""] }

\* spans that overlap, touch, are empty or reversed
HeapSpans == { <<0, 1>>, <<0, 2>>, <<1, 2>>, <<1, 1>>, <<2, 1>> }

HeapAnnotations ==
    { Annotation(sp[1], sp[2], m.gender, m.label, m.language) :
        sp \in HeapSpans, m \in HeapMetas }

\* the caller holds a list of annotations, possibly the same object twice,
\* and an audio
InitHeap ==
    /\ pc = "heap_call"
    /\ \E objects \in SeqsUpTo(HeapAnnotations, MaxAnn) :
        /\ heap = Append(objects, AudioObject("input"))
        /\ caller_list \in SeqsUpTo(1..Len(objects), MaxAnn)
        /\ caller_audio = Len(objects) + 1
    /\ returned = Nil
    /\ NoCore
    /\ NoVoice /\ NoDsp /\ NoJob /\ NoConc

\* a call of normalize_annotations(annotations)
NormalizeAnnotationsCall ==
    /\ pc = "heap_call"
    /\ LET st == NormalizeRefs(heap, caller_list) IN
        /\ heap' = st.heap
        /\ returned' = [annots |-> st.merged, audio |-> 0]
    /\ pc' = "heap_normalized"
    /\ UNCHANGED <<normVars, resolveVars, spliceVars, voiceVars, dspVars, jobVars,
                   concVars, caller_list, caller_audio>>

\* a call of anonymize_with_surrogates(input_audio, annotations, ...): with
\* nothing to replace it returns input_audio itself; otherwise the track is
\* a new object (slices and += of an AudioSegment make new objects), unless
\* a surrogate is missing and the call raises
AnonymizeWithSurrogatesCall ==
    /\ pc = "heap_call"
    /\ LET st == NormalizeRefs(heap, caller_list) IN
        IF st.merged = <<>>
        THEN /\ heap' = st.heap
             /\ returned' = [annots |-> st.merged, audio |-> caller_audio]
        ELSE \E raised \in BOOLEAN :
             IF raised
             THEN /\ heap' = st.heap
                  /\ returned' = Nil
             ELSE /\ heap' = Append(st.heap, AudioObject("output"))
                  /\ returned' = [annots |-> st.merged, audio |-> Len(st.heap) + 1]
    /\ pc' = "heap_anonymized"
    /\ UNCHANGED <<normVars, resolveVars, spliceVars, voiceVars, dspVars, jobVars,
                   concVars, caller_list, caller_audio>>

NextHeap == NormalizeAnnotationsCall \/ AnonymizeWithSurrogatesCall

SpecHeap == InitHeap /\ [][NextHeap]_vars

\* ------------------------------------------------------ concurrent calls
MaxCalls == 2

\* os.listdir gives the files of a folder in an order of its own, the same
\* at every listing of an unchanged folder
ListingOrder(files) ==
    CHOOSE order \in [1..Cardinality(files) -> files] :
        \A i, j \in 1..Cardinality(files) : i # j => order[i] # order[j]

\* random.choice(candidates) on the module's one generator, in state g: the
\* element drawn (the generator then moves to its next state)
RandomChoice(candidates, g) ==
    ListingOrder(candidates)[(g % Cardinality(candidates)) + 1]

\* _pick_surrogate_path with the generator in state g
PickSurrogatePath(cat, q, g) ==
    LET candidates == PickScan(cat, q).candidates IN
    [selected |-> IF candidates = {} THEN Nil ELSE RandomChoice(candidates, g),
     rng |-> IF candidates = {} THEN g ELSE g + 1]

\* the branch of resampling the environment selects (USE_LIBROSA_PV is
\* tested first)
ResamplingBackend(env) ==
    IF "USE_LIBROSA_PV" \in env THEN "phase_vocoder"
    ELSE IF "USE_FAST_RESAMP" \in env THEN "resample"
    ELSE "wsola"

\* resampling(x, coef): the branch taken and the length of what it returns
resampling(xs, c, env) ==
    LET backend == ResamplingBackend(env) IN
    [backend |-> backend,
     length |-> CASE backend = "phase_vocoder" -> (Len(xs) * c.num + c.den - 1) \div c.den
                  [] backend = "resample" -> (Len(xs) * c.den) \div c.num
                  [] OTHER -> Len(xs)]

\* what a call returns when it runs with the catalog cat, the environment
\* env and the generator in state g
CallResult(call, cat, env, g) ==
    CASE call.op = "normalize" -> normalize_annotations(call.arg)
      [] call.op = "resolve" -> PickSurrogatePath(cat, call.arg, g).selected
      [] call.op = "splice" -> LoadSegment(PickSurrogatePath(cat, call.arg, g).selected)
      [] call.op = "resampling" -> resampling(call.arg.x, call.arg.coef, env)
      [] OTHER -> clipping(call.arg.x, call.arg.coef)

\* the generator after the call
CallRng(call, cat, g) ==
    IF call.op \in {"resolve", "splice"}
    THEN PickSurrogatePath(cat, call.arg, g).rng
    ELSE g

ConcDir == <<"english", "male">>

ConcFiles ==
    { File(ConcDir, <<"male", "PERSON">>, "wav", 1),
      File(ConcDir, <<"male", "PERSON">>, "mp3", 3) }

ConcQuery == [gender |-> "male", label |-> "PERSON", language |-> "english"]

ConcCalls ==
    { [op |-> "normalize", arg |-> a] :
        a \in { <<Annotation(0, 2, "male", "PERSON", "english"),
                  Annotation(1, 3, "female", None, "english")>> } }
    \cup { [op |-> o, arg |-> ConcQuery] : o \in {"resolve", "splice"} }
    \cup { [op |-> o, arg |-> [x |-> <<1, -2, 0>>, coef |-> Coef(1, 2)]] :
             o \in {"resampling", "clipping"} }

Toggles == {"USE_FAST_RESAMP", "USE_LIBROSA_PV"}

\* the calls about to run, none started; the generator in its first state
InitConc ==
    /\ pc = "conc"
    /\ \E cs \in [1..MaxCalls -> ConcCalls] :
        calls = [i \in 1..MaxCalls |->
                    [op |-> cs[i].op, arg |-> cs[i].arg, pos |-> "ready", result |-> Nil]]
    /\ rng = 0
    /\ environ \in SUBSET Toggles
    /\ annotations = <<>>
    /\ annots = <<>>
    /\ catalog \in SUBSET ConcFiles
    /\ query = Nil
    /\ probed = <<>>
    /\ selected = Nil
    /\ loaded = Nil
    /\ NoSplice
    /\ NoVoice /\ NoDsp /\ NoJob /\ NoHeap

\* call i of operation op runs
RunCall(i, op) ==
    /\ pc = "conc"
    /\ calls[i].op = op
    /\ calls[i].pos = "ready"
    /\ calls' = [calls EXCEPT ![i].pos = "done",
                              ![i].result = CallResult(calls[i], catalog, environ, rng)]
    /\ rng' = CallRng(calls[i], catalog, rng)
    /\ UNCHANGED <<pc, normVars, resolveVars, spliceVars, voiceVars, dspVars, jobVars,
                   environ, heapVars>>

CallNormalize == \E i \in 1..MaxCalls : RunCall(i, "normalize")

CallResolve == \E i \in 1..MaxCalls : RunCall(i, "resolve")

CallSplice == \E i \in 1..MaxCalls : RunCall(i, "splice")

CallResampling == \E i \in 1..MaxCalls : RunCall(i, "resampling")

CallClipping == \E i \in 1..MaxCalls : RunCall(i, "clipping")

NextConc == CallNormalize \/ CallResolve \/ CallSplice \/ CallResampling \/ CallClipping

SpecConc == InitConc /\ [][NextConc]_vars

\* ------------------------------------------------- ProcessingJobLogger
\* ProcessingJob(..., status=ProcessingStatus.PROCESSING): the columns the
\* logger writes
ProcessingJob ==
    [status |-> "PROCESSING", error_message |-> None,
     input_metadata |-> FALSE, output_filename |-> None]

\* the status __exit__ gives a job whatever the block did
ExitStatusCompleted(e) == "COMPLETED"

\* the status __exit__ gives the job: exc_type is None or not
ExitStatus(e) == IF e = NoException THEN "COMPLETED" ELSE "FAILED"

\* self.job.error_message = str(exc_val) if exc_val else "Unknown error"
\* (an exception instance is truthy)
ErrorMessage(e) == e.message

\* self.db.commit() with the object j changed: the row afterwards.  A job
\* whose INSERT was rolled back is no longer in the session, so a later
\* commit writes nothing.
CommitRow(j, row, ok) == IF ok /\ row # Nil THEN j ELSE row

\* the object after commit, or after the rollback that follows a failed
\* commit (its attributes are those of the row again)
AfterCommit(j, row, ok) == IF ok \/ row = Nil THEN j ELSE row

\* what the body of a block can raise
BlockExceptions ==
    { Raised("ValueError", "No surrogate found"), Raised("RuntimeError", ""),
      Raised("KeyboardInterrupt", "") }

InitJob ==
    /\ pc = "job_new"
    /\ caller \in {"block", "run"}
    /\ job = Nil
    /\ db_row = Nil
    /\ db = None
    /\ exc = NoException
    /\ ret = Nil
    /\ out_file = Nil
    /\ logged = {}
    /\ NoCore
    /\ NoVoice /\ NoDsp /\ NoConc /\ NoHeap

\* ProcessingJobLogger.__enter__: get_db_session() may raise, and so may
\* the commit of the new row; both are logged and swallowed
Enter ==
    /\ pc = "job_new"
    /\ \E outcome \in {"created", "no_session", "commit_failed"} :
        /\ db' = IF outcome = "no_session" THEN None ELSE "open"
        /\ job' = IF outcome = "no_session" THEN Nil ELSE ProcessingJob
        /\ db_row' = IF outcome = "created" THEN ProcessingJob ELSE Nil
        /\ logged' = IF outcome = "created" THEN logged
                     ELSE logged \cup {"Failed to create processing job in database"}
    /\ pc' = "in_block"
    /\ UNCHANGED <<normVars, resolveVars, spliceVars, voiceVars, dspVars,
                   caller, exc, ret, out_file, concVars, heapVars>>

\* the body of a with-block runs to its end or raises
Body ==
    /\ pc = "in_block"
    /\ caller = "block"
    /\ \E e \in {NoException} \cup BlockExceptions : exc' = e
    /\ pc' = "block_end"
    /\ UNCHANGED <<normVars, resolveVars, spliceVars, voiceVars, dspVars,
                   caller, job, db_row, db, ret, out_file, logged, concVars, heapVars>>

\* run(): `if db_logger and db_logger.job:` decode the input, then
\* update_input_metadata and update_detection_metadata, each with a commit
\* of its own whose failure is logged and rolled back
RunUpdateMetadata ==
    /\ pc = "in_block"
    /\ caller = "run"
    /\ IF job = Nil
       THEN /\ pc' = "metadata_done"
            /\ UNCHANGED <<job, db_row, exc, logged>>
       ELSE \/ /\ exc' = Raised("CouldntDecodeError", "Decoding failed")
               /\ pc' = "block_end"
               /\ UNCHANGED <<job, db_row, logged>>
            \/ \E ok1, ok2 \in BOOLEAN :
                 LET j1 == [job EXCEPT !.input_metadata = TRUE]
                     row1 == CommitRow(j1, db_row, ok1)
                     j2 == AfterCommit(j1, db_row, ok1)
                 IN /\ db_row' = CommitRow(j2, row1, ok2)
                    /\ job' = AfterCommit(j2, row1, ok2)
                    /\ logged' = logged
                         \cup (IF ok1 THEN {} ELSE {"Failed to update input metadata"})
                         \cup (IF ok2 THEN {} ELSE {"Failed to update detection metadata"})
                    /\ pc' = "metadata_done"
                    /\ exc' = exc
    /\ UNCHANGED <<normVars, resolveVars, spliceVars, voiceVars, dspVars,
                   caller, db, ret, out_file, concVars, heapVars>>

\* _process_and_save: anonymize_to_bytes returns the encoded bytes or raises
RunAnonymizeToBytes ==
    /\ pc = "metadata_done"
    /\ \/ /\ pc' = "encoded"
          /\ exc' = exc
       \/ /\ pc' = "block_end"
          /\ exc' = Raised("ValueError", "No surrogate found")
    /\ UNCHANGED <<normVars, resolveVars, spliceVars, voiceVars, dspVars,
                   caller, job, db_row, db, ret, out_file, logged, concVars, heapVars>>

\* _process_and_save: the bytes are written under output/
RunSave ==
    /\ pc = "encoded"
    /\ \/ /\ pc' = "saved"
          /\ out_file' = [name |-> "anonymized.wav"]
          /\ exc' = exc
       \/ /\ pc' = "block_end"
          /\ exc' = Raised("OSError", "No space left on device")
          /\ out_file' = out_file
    /\ UNCHANGED <<normVars, resolveVars, spliceVars, voiceVars, dspVars,
                   caller, job, db_row, db, ret, logged, concVars, heapVars>>

\* _process_and_save after the save: `if db_logger and db_logger.job:`
\* update_output_metadata, then db_logger.log_annotation_surrogates(...),
\* a method ProcessingJobLogger does not have
RunAudit ==
    /\ pc = "saved"
    /\ IF job = Nil
       THEN UNCHANGED <<job, db_row, exc, logged>>
       ELSE \E ok \in BOOLEAN :
              LET j == [job EXCEPT !.output_filename = out_file.name] IN
              /\ db_row' = CommitRow(j, db_row, ok)
              /\ job' = AfterCommit(j, db_row, ok)
              /\ logged' = logged
                   \cup (IF ok THEN {} ELSE {"Failed to update output metadata"})
              /\ exc' = Raised("AttributeError",
                               "'ProcessingJobLogger' object has no attribute 'log_annotation_surrogates'")
    /\ pc' = "block_end"
    /\ UNCHANGED <<normVars, resolveVars, spliceVars, voiceVars, dspVars,
                   caller, db, ret, out_file, concVars, heapVars>>

\* ProcessingJobLogger.__exit__, and for run() what follows it: the path is
\* returned, or the exception is logged and raised again
Exit ==
    /\ pc = "block_end"
    /\ IF job = Nil \/ db = None
       THEN UNCHANGED <<job, db_row, db, logged>>
       ELSE \E ok \in BOOLEAN :
              LET j == [job EXCEPT !.status = ExitStatus(exc),
                                   !.error_message =
                                       IF exc = NoException THEN @ ELSE ErrorMessage(exc)]
              IN /\ db_row' = CommitRow(j, db_row, ok)
                 /\ job' = AfterCommit(j, db_row, ok)
                 /\ logged' = logged
                      \cup (IF ok THEN {} ELSE {"Failed to update processing job status"})
                 /\ db' = "closed"
    /\ ret' = IF caller = "run" /\ exc = NoException THEN out_file ELSE Nil
    /\ pc' = "exited"
    /\ UNCHANGED <<normVars, resolveVars, spliceVars, voiceVars, dspVars,
                   caller, exc, out_file, concVars, heapVars>>

NextJob ==
    Enter \/ Body \/ RunUpdateMetadata \/ RunAnonymizeToBytes \/ RunSave
    \/ RunAudit \/ Exit

SpecJob == InitJob /\ [][NextJob]_vars

\* ---------------------------------------------------- resolution claims
\* the normalized query of the running resolution
QGender == NormGender(query.gender)
QLabel == NormLabel(query.label)
QLanguage == NormLanguage(query.language)

Resolving == pc \in {"picked", "direct", "fit"}

\* the audio files of a folder that a query for `label` may be answered with
Matching(folder, label) ==
    { f \in catalog :
        /\ f.dir = folder
        /\ Lower(f.ext) \in AudioExts
        /\ (label # None =>
              \E i \in 1..Len(f.name) : Upper(f.name[i]) = Upper(label)) }

\* C9's fixed order of folders, written out
ExpectedOrder(g, l, lang) ==
    IF l # None
    THEN << <<lang, g, l>>, <<lang, l, g>>, <<lang, l>>, <<lang, g>>,
            <<g, l>>, <<l, g>>, <<l>>, <<g>> >>
    ELSE << <<lang, g>>, <<g>> >>

NoCandidate ==
    LET order == ExpectedOrder(QGender, QLabel, QLanguage) IN
    \A i \in 1..Len(order) : Matching(order[i], QLabel) = {}

\* C3: when no folder of the search order yields a candidate,
\* _pick_surrogate_path returns None and both loaders raise; a returned or
\* loaded asset is always a file of the catalog.
C3_ExplicitFailure ==
    Resolving =>
        /\ NoCandidate => selected = Nil
        /\ (NoCandidate /\ pc \in {"direct", "fit"}) => loaded.status = "ValueError"
        /\ selected # Nil => selected \in catalog
        /\ (pc \in {"direct", "fit"} /\ loaded.status = "ok") => loaded.path \in catalog

\* the fitting loader raised although the catalog holds audio files
C3_Witness ==
    /\ pc = "fit"
    /\ NoCandidate
    /\ \E f \in catalog : Lower(f.ext) \in AudioExts
    /\ selected = Nil
    /\ loaded.status = "ValueError"

GenderNames == {"male", "female"}

\* the gender a file belongs to: that of its folder, else that of its name
FileGender(f) ==
    IF \E i \in 1..Len(f.dir) : f.dir[i] \in GenderNames
    THEN f.dir[CHOOSE i \in 1..Len(f.dir) : f.dir[i] \in GenderNames]
    ELSE IF \E i \in 1..Len(f.name) : Lower(f.name[i]) \in GenderNames
         THEN Lower(f.name[CHOOSE i \in 1..Len(f.name) : Lower(f.name[i]) \in GenderNames])
         ELSE None

\* C4: a returned file belongs to the requested gender and, when a label was
\* requested, carries the requested label.
C4_RightGenderAndLabel ==
    (Resolving /\ selected # Nil) =>
        /\ Truthy(query.gender) => FileGender(selected) = QGender
        /\ QLabel # None =>
              \E i \in 1..Len(selected.name) : Upper(selected.name[i]) = Upper(QLabel)

\* C9: folders are listed in the fixed order, a folder only after every
\* earlier one yielded no candidate, and the scan stops at the first folder
\* that yields one.
C9_FixedOrder ==
    Resolving =>
        LET order == ExpectedOrder(QGender, QLabel, QLanguage) IN
        /\ Len(probed) >= 1
        /\ Len(probed) <= Len(order)
        /\ probed = SubSeq(order, 1, Len(probed))
        /\ \A i \in 1..(Len(probed) - 1) : Matching(probed[i], QLabel) = {}
        /\ selected # Nil => selected \in Matching(probed[Len(probed)], QLabel)
        /\ selected = Nil => probed = order

\* a labelled query answered from the last folder, root/gender
C9_Witness ==
    /\ pc = "picked"
    /\ QLabel # None
    /\ Len(probed) = 8
    /\ selected # Nil
    /\ selected.dir = <<QGender>>

IsOriginal(x) == x >= 0

\* the ms of the original that lie in no normalized span [start_ms, end_ms)
OutsideSpans ==
    { k \in 0..(Len(input_audio) - 1) :
        \A j \in 1..Len(annots) :
            ~(ToMs(annots[j].start_sec) <= k /\ k < ToMs(annots[j].end_sec)) }

\* C1: the returned track holds every original ms outside all normalized
\* spans exactly once and in its original order, and no original ms from
\* inside a span (the cursor follows the spans' ends in the original
\* timeline, whatever the length of the inserted clips).
C1_OutsideKeptOnce ==
    result # Nil =>
        LET kept == SelectSeq(result.audio, IsOriginal) IN
        /\ Len(kept) = Cardinality(OutsideSpans)
        /\ \A i \in 1..Len(kept) : kept[i] \in OutsideSpans
        /\ \A i \in 1..(Len(kept) - 1) : kept[i] < kept[i + 1]

\* the normalized spans the catalog has no candidate for
Unresolvable ==
    { j \in 1..Len(annots) :
        LET g == NormGender(annots[j].gender)
            l == NormLabel(annots[j].label)
            order == ExpectedOrder(g, l, NormLanguage(annots[j].language))
        IN \A i \in 1..Len(order) : Matching(order[i], l) = {} }

\* C2: when resolution fails for a span the splice raises: nothing is
\* returned, nothing is written or encoded, and the input audio is as it
\* was; a returned or written track has a surrogate of the catalog for
\* every normalized span.
C2_AllOrNothing ==
    /\ input_audio = OriginalAudio
    /\ (pc = "raised" /\ error = "ValueError") => (result = Nil /\ saved = Nil)
    /\ (result # Nil \/ saved # Nil) =>
          /\ Unresolvable = {}
          /\ Len(result.usage) = Len(annots)
          /\ \A j \in 1..Len(result.usage) : result.usage[j].surrogate_path \in catalog
    /\ saved # Nil => (saved.audio = result.audio /\ saved.usage = result.usage)

\* resolution fails for the second of two spans, after original audio and
\* the first surrogate were appended to the track under construction
C2_Witness ==
    /\ pc = "raised"
    /\ error = "ValueError"
    /\ Len(annots) = 2
    /\ idx = 2
    /\ Unresolvable = {2}
    /\ Len(surrogate_usage) = 1
    /\ \E i \in 1..Len(output) : IsOriginal(output[i])
    /\ \E i \in 1..Len(output) : output[i] = -1
    /\ result = Nil
    /\ saved = Nil

\* ------------------------------------------------- normalization claims
\* C5: the list returned by normalize_annotations is strictly ordered by
\* start, each span starts after the previous span's end (no overlap, no
\* touching), and every returned span has end > start.
C5_OrderedDisjoint ==
    pc = "normalized" =>
        /\ \A i \in 1..Len(annots) : annots[i].end_sec > annots[i].start_sec
        /\ \A i \in 1..(Len(annots) - 1) :
              /\ annots[i + 1].start_sec > annots[i].start_sec
              /\ annots[i + 1].start_sec > annots[i].end_sec

\* two spans come back from an input given in descending order of start
C5_Witness ==
    /\ pc = "normalized"
    /\ Len(annots) = 2
    /\ Len(annotations) = 2
    /\ annotations[1].start_sec > annotations[2].start_sec

\* C6: normalize_annotations is idempotent: normalizing the returned list
\* gives the returned list again, span for span and field for field.
C6_Idempotent ==
    pc = "normalized" => normalize_annotations(annots) = annots

\* a list whose two valid annotations were merged into one span
C6_Witness ==
    /\ pc = "normalized"
    /\ Len(Cleaned(annotations)) = 2
    /\ Len(annots) = 1
    /\ annotations[1].gender # annotations[2].gender

\* the unit cells [t, t+1) covered by the valid spans of a list
Covered(anns) ==
    { t \in 0..MaxTime :
        \E i \in 1..Len(anns) :
            /\ IsValid(anns[i])
            /\ anns[i].start_sec <= t
            /\ t < anns[i].end_sec }

\* C7: the union of the returned intervals equals the union of the intervals
\* of the valid (end > start) input annotations.
C7_Coverage ==
    pc = "normalized" => Covered(annots) = Covered(annotations)

\* a merge in which the later span ends before the earlier one does
C7_Witness ==
    /\ pc = "normalized"
    /\ Len(annotations) = 2
    /\ IsValid(annotations[1])
    /\ IsValid(annotations[2])
    /\ annotations[1].start_sec < annotations[2].start_sec
    /\ annotations[2].end_sec < annotations[1].end_sec
    /\ Len(annots) = 1

\* input position i comes before input position j in start-sorted order,
\* ties in start broken by input order
SortedBefore(i, j) ==
    \/ annotations[i].start_sec < annotations[j].start_sec
    \/ /\ annotations[i].start_sec = annotations[j].start_sec
       /\ i < j

\* the valid input positions that fall into the returned span o
Block(o) ==
    { i \in 1..Len(annotations) :
        /\ IsValid(annotations[i])
        /\ o.start_sec <= annotations[i].start_sec
        /\ annotations[i].start_sec <= o.end_sec }

FirstOf(B) == CHOOSE i \in B : \A j \in B \ {i} : SortedBefore(i, j)

LastOf(B) == CHOOSE i \in B : \A j \in B \ {i} : SortedBefore(j, i)

\* the value a field of the merged span must have: that of the latest span
\* of the block in which it is present, else that of the earliest span
LaterWins(B, field) ==
    LET present == { i \in B : Truthy(annotations[i][field]) } IN
    IF present = {} THEN annotations[FirstOf(B)][field]
    ELSE annotations[LastOf(present)][field]

\* C8: a merged span keeps the earliest start of its block, ends at the
\* maximum end, and takes gender, label and language from the latest span
\* (start-sorted, ties by input order) in which the value is present,
\* otherwise keeps the earlier value.
C8_MergePolicy ==
    pc = "normalized" =>
        \A k \in 1..Len(annots) :
            LET o == annots[k]
                B == Block(o)
            IN /\ B # {}
               /\ o.start_sec = annotations[FirstOf(B)].start_sec
               /\ \A i \in B : annotations[i].end_sec <= o.end_sec
               /\ \E i \in B : annotations[i].end_sec = o.end_sec
               /\ o.gender = LaterWins(B, "gender")
               /\ o.label = LaterWins(B, "label")
               /\ o.language = LaterWins(B, "language")

\* two spans with the same start and different tags, given with the one
\* that carries the tags first and merged into one
C8_Witness ==
    /\ pc = "normalized"
    /\ Len(annotations) = 2
    /\ IsValid(annotations[1])
    /\ IsValid(annotations[2])
    /\ annotations[1].start_sec = annotations[2].start_sec
    /\ annotations[1].label = "PERSON"
    /\ annotations[2].label = "LOCATION"
    /\ Len(annots) = 1
    /\ annots[1].label = "LOCATION"
    /\ annots[1].gender = "female"

\* ------------------------------------------------- splice duration claims
\* the sum of the native lengths of the clips the usage records name
RECURSIVE InsertedMs(_)
InsertedMs(usage) ==
    IF usage = <<>> THEN 0
    ELSE usage[1].surrogate_path.ms + InsertedMs(Tail(usage))

\* C11: under 'fit' the returned track is exactly as long as the original
\* clip.
C11_FitKeepsDuration ==
    (result # Nil /\ strategy = "fit") => Len(result.audio) = Len(input_audio)

\* C12: under 'direct' the returned track is as long as the original audio
\* outside the normalized spans plus the native lengths of the inserted
\* clips, and no inserted clip is trimmed or padded.
C12_DirectDuration ==
    (result # Nil /\ strategy = "direct") =>
        /\ Len(result.audio) = Cardinality(OutsideSpans) + InsertedMs(result.usage)
        /\ \A j \in 1..Len(result.usage) :
              result.usage[j].surrogate_duration_ms = result.usage[j].surrogate_path.ms

\* C14: under 'fit' every original ms outside the normalized spans is at its
\* original offset in the returned track, and every offset inside a
\* normalized span holds surrogate audio.
C14_FitKeepsOffsets ==
    (result # Nil /\ strategy = "fit") =>
        /\ \A k \in OutsideSpans :
              k + 1 <= Len(result.audio) /\ result.audio[k + 1] = k
        /\ \A k \in 0..(Len(result.audio) - 1) :
              (\E j \in 1..Len(annots) :
                  ToMs(annots[j].start_sec) <= k /\ k < ToMs(annots[j].end_sec))
                => ~IsOriginal(result.audio[k + 1])

\* ------------------------------------------------ degenerate annotations
\* end_sec <= start_sec
Degenerate(a) == a.end_sec <= a.start_sec

HasDuration(a) == ~Degenerate(a)

\* C13: when the annotation list is empty or holds only annotations with
\* end <= start, anonymize_with_surrogates returns the input audio and an
\* empty record list, and no surrogate was looked up, under either strategy.
C13_NothingToReplace ==
    (pc # "call" /\ \A j \in 1..Len(annotations) : Degenerate(annotations[j])) =>
        /\ annots = <<>>
        /\ result # Nil
        /\ result.audio = input_audio
        /\ result.usage = <<>>
        /\ query = Nil /\ probed = <<>> /\ selected = Nil /\ loaded = Nil
        /\ error = ""

\* a call under 'fit' with two zero-length annotations and a catalog that
\* could serve them returned the input
C13_Witness ==
    /\ pc = "returned"
    /\ strategy = "fit"
    /\ Len(annotations) = 2
    /\ \A j \in 1..Len(annotations) : Degenerate(annotations[j])
    /\ catalog = SpliceFiles
    /\ result.audio = OriginalAudio
    /\ result.usage = <<>>
    /\ probed = <<>>

\* C18: normalize_annotations returns the list the annotations with
\* end > start alone would give, no returned span takes a boundary from a
\* dropped annotation, and the list is empty when the input is empty or
\* every annotation is dropped.
C18_DropsDegenerate ==
    pc = "normalized" =>
        /\ annots = normalize_annotations(SelectSeq(annotations, HasDuration))
        /\ \A k \in 1..Len(annots) :
              /\ \E j \in 1..Len(annotations) :
                    /\ HasDuration(annotations[j])
                    /\ annotations[j].start_sec = annots[k].start_sec
              /\ \E j \in 1..Len(annotations) :
                    /\ HasDuration(annotations[j])
                    /\ annotations[j].end_sec = annots[k].end_sec
        /\ (\A j \in 1..Len(annotations) : Degenerate(annotations[j])) => annots = <<>>

\* a zero-length and a reversed annotation were both dropped
C18_Witness ==
    /\ pc = "normalized"
    /\ Len(annotations) = 2
    /\ annotations[1].end_sec = annotations[1].start_sec
    /\ annotations[2].end_sec < annotations[2].start_sec
    /\ annots = <<>>

\* ------------------------------------------------------ order of the input
Perms(n) == { p \in [1..n -> 1..n] : \A i, j \in 1..n : i # j => p[i] # p[j] }

Permuted(anns, p) == [k \in 1..Len(anns) |-> anns[p[k]]]

\* the (start, end) pairs of a list of annotations
Boundaries(anns) == [k \in 1..Len(anns) |-> <<anns[k].start_sec, anns[k].end_sec>>]

\* C19: every ordering of the input annotations gives the same sequence of
\* (start, end) pairs.
C19_OrderIndependent ==
    pc = "normalized" =>
        \A p \in Perms(Len(annotations)) :
            Boundaries(normalize_annotations(Permuted(annotations, p)))
                = Boundaries(annots)

\* two annotations with the same start and different ends merged into one
\* span whose metadata depends on the order they were given in
C19_Witness ==
    /\ pc = "normalized"
    /\ Len(annotations) = 2
    /\ HasDuration(annotations[1]) /\ HasDuration(annotations[2])
    /\ annotations[1].start_sec = annotations[2].start_sec
    /\ annotations[1].end_sec > annotations[2].end_sec
    /\ Len(annots) = 1
    /\ \E p \in Perms(2) :
          normalize_annotations(Permuted(annotations, p)) # annots

\* --------------------------------------------------------- optional label
\* the per-gender pools, the only folders of a query without a label
GenderPools == << <<QLanguage, QGender>>, <<QGender>> >>

\* the resolution of a query without a label: only the per-gender pools are
\* listed, and any audio file of the pool may be returned
PoolsOnly ==
    /\ Len(probed) \in 1..2
    /\ probed = SubSeq(GenderPools, 1, Len(probed))
    /\ selected # Nil =>
          selected \in { f \in catalog :
                           f.dir = probed[Len(probed)] /\ Lower(f.ext) \in AudioExts }
    /\ selected = Nil =>
          \A i \in 1..2 : ListAudioFiles(catalog, GenderPools[i]) = {}

\* C15: a span whose label is None is resolved against the per-gender pools
\* only, without filename filtering, and when a pool holds a file the splice
\* goes on and records the span.
C15_LabelOptional ==
    (query # Nil /\ query.label = None) =>
        /\ PoolsOnly
        /\ (selected # Nil /\ loaded.status = "ok") =>
              /\ pc # "raised"
              /\ surrogate_usage # <<>>
              /\ surrogate_usage[Len(surrogate_usage)].label = None
              /\ surrogate_usage[Len(surrogate_usage)].surrogate_path = selected

\* ----------------------------------------------------- catalog convention
\* root/language/gender/label, the first folder of a labelled query
ConventionFolder == <<QLanguage, QGender, QLabel>>

\* C16: when root/language/gender/label holds at least one file with a
\* supported audio extension, the query (gender, label, language) is
\* answered with a file of that folder.
C16_ConventionHonoured ==
    (Resolving /\ QLabel # None /\ ListAudioFiles(catalog, ConventionFolder) # {}) =>
        /\ selected # Nil
        /\ selected.dir = ConventionFolder

\* ------------------------------------------------------ repeated queries
\* the folders of the fixed order that can answer the query
Answering ==
    LET order == ExpectedOrder(QGender, QLabel, QLanguage) IN
    { i \in 1..Len(order) : Matching(order[i], QLabel) # {} }

\* the first of them
FirstAnswering ==
    LET order == ExpectedOrder(QGender, QLabel, QLanguage) IN
    order[CHOOSE i \in Answering : \A k \in Answering : i <= k]

\* C17: with the catalog and the query fixed, a repeated call returns a file
\* of the same folder as the call before it, the first folder of the fixed
\* order that has a candidate (or None again when the call before it
\* returned None); only the file may differ.
C17_SameFolder ==
    [][pc' = "repicked" =>
          \/ selected = Nil /\ selected' = Nil /\ Answering = {}
          \/ /\ selected # Nil
             /\ selected' # Nil
             /\ selected'.dir = selected.dir
             /\ selected'.dir = FirstAnswering]_vars

\* two folders of the order can answer the query, and a repeated call was
\* answered from the first of them
C17_Witness ==
    /\ pc = "repicked"
    /\ Cardinality(Answering) = 2
    /\ selected # Nil
    /\ selected.dir = FirstAnswering

\* ----------------------------------------------------------- audit trail
\* the number of ms of the returned track that come from the clip inserted
\* for the span at position j
ClipMsInserted(j) ==
    Cardinality({ k \in 1..Len(result.audio) : result.audio[k] = -j })

\* C20: a returned splice carries one record per normalized span, in span
\* order; the record has the span's start, end, gender, label and language,
\* the strategy of the call, and the path of the clip that was inserted for
\* the span, a candidate of the span's query.
C20_OneRecordPerSpan ==
    result # Nil =>
        /\ Len(result.usage) = Len(annots)
        /\ \A j \in 1..Len(result.usage) :
              LET u == result.usage[j]
                  a == annots[j]
                  target_ms == Max(0, ToMs(a.end_sec) - ToMs(a.start_sec))
              IN /\ u.start_sec = a.start_sec
                 /\ u.end_sec = a.end_sec
                 /\ u.gender = a.gender
                 /\ u.label = a.label
                 /\ u.language = a.language
                 /\ u.processing_strategy = strategy
                 /\ u.surrogate_path \in
                       PickScan(catalog, [gender |-> a.gender, label |-> a.label,
                                          language |-> a.language]).candidates
                 /\ ClipMsInserted(j) =
                       IF strategy = "fit"
                       THEN Min(u.surrogate_path.ms, target_ms)
                       ELSE u.surrogate_path.ms
                 /\ u.surrogate_duration_ms =
                       IF strategy = "fit" THEN target_ms ELSE u.surrogate_path.ms

\* two annotations given in descending order of start came back under 'fit'
\* as two spans with a record each, naming two different clips
C20_Witness ==
    /\ pc = "returned"
    /\ strategy = "fit"
    /\ Len(annotations) = 2
    /\ annotations[1].start_sec > annotations[2].start_sec
    /\ Len(annots) = 2
    /\ Len(result.usage) = 2
    /\ result.usage[1].surrogate_path # result.usage[2].surrogate_path
    /\ ClipMsInserted(1) > 0
    /\ ClipMsInserted(2) > 0

\* ------------------------------------------------------- voice disguise
\* C21: anonymize_to_bytes encodes the spliced track after it went through
\* the voice modification when a params_file is given, and encodes the
\* spliced track as it is when none is given.
C21_DisguiseBeforeEncoding ==
    pc = "exported" =>
        /\ saved.usage = result.usage
        /\ Truthy(saved.params_file) => saved.voice_modified
        /\ ~Truthy(saved.params_file) =>
              (~saved.voice_modified /\ saved.audio = result.audio)

\* C22: when something fails inside apply_voice_modifications (the import
\* of the transforms, or a transform), the caller gets an error, never
\* the audio it passed in.
C22_FailureSurfaces ==
    (pc = "voice_done" /\ failure # "") => voice_out.status = "raised"

IsTransform(entry) == entry[1] \in TransformNames

\* C23: a call in which nothing fails returns, and the audio it returns
\* went through the transforms named by the keys of params, in the order of
\* params and nothing else (a key that is no transform adds nothing); for
\* an empty params it returns the audio it was given.
C23_DeclaredOrder ==
    (pc = "voice_done" /\ failure = "") =>
        /\ voice_out.status = "returned"
        /\ voice_out.audio.applied = voice_in.applied \o SelectSeq(params, IsTransform)
        /\ params = <<>> => voice_out.audio = voice_in

\* a key that is no transform, then a transform: one transform was applied
C23_Witness ==
    /\ pc = "voice_done"
    /\ failure = ""
    /\ Len(params) = 2
    /\ ~IsTransform(params[1])
    /\ IsTransform(params[2])
    /\ voice_out.audio.applied = <<params[2]>>

\* ------------------------------------------------------ transform claims
\* the squared L2 norm of a returned array
NormSq(out) == (SumSq(out.dir) * out.num_sq) \div out.den_sq

\* C24: modspec_smoothing and clipping return an array without NaN whose
\* L2 norm is that of the input; for a silent input the output is silent.
C24_EnergyPreserved ==
    pc \in {"clipping", "modspec_smoothing"} =>
        /\ ~y_out.nan
        /\ NormSq(y_out) = SumSq(x_in)

\* C25: with mcadams = 1 the poles of every frame keep their angles and
\* their magnitudes, so a_lpc_new is the polynomial a_lpc.
C25_McAdamsIdentity ==
    (pc = "vp_baseline2" /\ coef = Coef(1, 1)) =>
        /\ Len(y_out.a_lpc_new) = Len(poles)
        /\ \A i \in 1..Len(poles) :
              /\ y_out.a_lpc_new[i].ang = poles[i].ang
              /\ y_out.a_lpc_new[i].mag = poles[i].mag
        /\ y_out.a_lpc_new = y_out.a_lpc

\* a frame with a real pole and a complex pair was resynthesized with
\* mcadams = 1
C25_Witness ==
    /\ pc = "vp_baseline2"
    /\ coef = Coef(1, 1)
    /\ y_out.frames # <<>>
    /\ Len(poles) = 4
    /\ poles[1].ang = 0
    /\ poles[2].ang = 2000
    /\ poles[3].ang = -2000
    /\ y_out.a_lpc_new = poles

\* C28: vp_baseline2 resynthesizes the frames m = 0 .. n_frame - 1, each
\* added at offset m * shift, so that with at least one complete frame the
\* first shift samples of the output got a contribution.
C28_EveryFrame ==
    pc = "vp_baseline2" =>
        /\ y_out.frames = [i \in 1..Max(0, NFrame(Len(x_in))) |-> i - 1]
        /\ NFrame(Len(x_in)) >= 1 =>
              \A n \in 1..Shift : y_out.added[n] >= 1


\* --------------------------------------------------------- caller's data
\* C27: a call of normalize_annotations or anonymize_with_surrogates leaves
\* the caller's list with the same elements in the same order, every
\* Annotation of it with the same field values, and the caller's audio as
\* it was.
C27_CallerDataUntouched ==
    [][(pc = "heap_call" /\ pc' # "heap_call") =>
          /\ caller_list' = caller_list
          /\ \A i \in 1..Len(caller_list) : heap'[caller_list[i]] = heap[caller_list[i]]
          /\ heap'[caller_audio] = heap[caller_audio]]_vars

\* two annotations of the caller were merged: the returned list holds an
\* object that did not exist before, and the caller's second annotation,
\* which comes first in time, still has its own fields
C27_Witness ==
    /\ pc = "heap_normalized"
    /\ Len(caller_list) = 2
    /\ caller_list[1] # caller_list[2]
    /\ heap[caller_list[2]].start_sec < heap[caller_list[1]].start_sec
    /\ Len(returned.annots) = 1
    /\ returned.annots[1] \notin {caller_list[1], caller_list[2]}
    /\ heap[returned.annots[1]].end_sec > heap[caller_list[2]].end_sec


\* ------------------------------------------------------ concurrent calls
\* C26: calls interleaved in any order share no mutable state: whatever
\* other calls ran before it, a call returns what it returns when it runs
\* alone.
C26_NoSharedState ==
    \A i \in 1..Len(calls) :
        calls[i].pos = "done" =>
            calls[i].result = CallResult(calls[i], catalog, environ, 0)


\* ------------------------------------------------------------ job status
\* the statement of C29 without the commit of __exit__ taken into account:
\* a job created on entry is COMPLETED after the exit when the block raised
\* nothing and FAILED with the message recorded when it raised.
C29_TerminalAfterExit ==
    (pc = "exited" /\ db_row # Nil) =>
        /\ db_row.status = (IF exc = NoException THEN "COMPLETED" ELSE "FAILED")
        /\ exc # NoException => db_row.error_message = exc.message

\* C29: for a job created on entry, after the exit the job is COMPLETED
\* only if the block raised nothing and FAILED, with the message recorded,
\* only if it raised; it is still PROCESSING only when the commit of
\* __exit__ failed, which __exit__ logged.
C29_TerminalUnlessCommitFails ==
    (pc = "exited" /\ db_row # Nil) =>
        /\ db_row.status = "COMPLETED" => exc = NoException
        /\ db_row.status = "FAILED" =>
              /\ exc # NoException
              /\ db_row.error_message = exc.message
        /\ db_row.status \notin {"COMPLETED", "FAILED"} =>
              /\ db_row.status = "PROCESSING"
              /\ "Failed to update processing job status" \in logged
        /\ "Failed to update processing job status" \notin logged =>
              db_row.status = ExitStatus(exc)

\* a block that raised left its job FAILED with the message of the
\* exception
C29_Witness ==
    /\ pc = "exited"
    /\ caller = "block"
    /\ db_row # Nil
    /\ exc # NoException
    /\ db_row.status = "FAILED"
    /\ db_row.error_message = "No surrogate found"

\* C30: in run(), with the job created and the output file saved, the job
\* ends COMPLETED and run() returns the saved path; nothing is raised.
C30_SavedMeansCompleted ==
    (pc = "exited" /\ caller = "run" /\ db_row # Nil /\ out_file # Nil) =>
        /\ db_row.status = "COMPLETED"
        /\ ret = out_file
        /\ exc = NoException

====
